---- MODULE Spec2Model ----
(***************************************************************************)
(* Model of rid2name.py: the Arsc resource-id resolver.                    *)
(*                                                                         *)
(* Bytes are naturals 0..255, byte strings are sequences of bytes, texts   *)
(* are sequences of Unicode code points.  A Python dict is a function; a   *)
(* raised exception is an outcome whose err field names the raise site.    *)
(***************************************************************************)
EXTENDS Integers, Sequences, FiniteSets, TLC

VARIABLES table, call, result, ncalls

vars == <<table, call, result, ncalls>>

----------------------------------------------------------------------------
(* Bounds of the model. *)

\* packages in a table
MaxPkgs == 2
\* type-name pool entries and type-spec groups per package
MaxTypes == 2
\* key-name pool entries per package
MaxKeys == 3
\* entryCount of one type-spec record
MaxCount == 2
\* code points in a logical text stored in a pool
MaxLen == 3
\* times one operation is called with the same arguments
MaxCalls == 2

----------------------------------------------------------------------------
(* Outcomes: a returned value or a raised exception. *)

Ok(v) == [err |-> "none", val |-> v]

Err(e) == [err |-> e, val |-> <<>>]

IsOk(o) == o.err = "none"

----------------------------------------------------------------------------
(* Python sequence primitives. *)

Min(a, b) == IF a < b THEN a ELSE b

Max(a, b) == IF a > b THEN a ELSE b

\* Python's s[a:b]: negative indices count from the end, then both are
\* clamped to 0..len(s); an empty or inverted range gives the empty sequence.
PyIndex(i, n) == IF i < 0 THEN Max(i + n, 0) ELSE Min(i, n)

PySlice(s, a, b) ==
    LET lo == PyIndex(a, Len(s))
        hi == PyIndex(b, Len(s))
    IN  IF lo >= hi THEN <<>> ELSE SubSeq(s, lo + 1, hi)

\* Python's s[a:]
PySliceFrom(s, a) == PySlice(s, a, Len(s))

RECURSIVE LStrip(_)
LStrip(s) == IF s # <<>> /\ Head(s) = 0 THEN LStrip(Tail(s)) ELSE s

RECURSIVE RStrip(_)
RStrip(s) ==
    IF s # <<>> /\ s[Len(s)] = 0 THEN RStrip(SubSeq(s, 1, Len(s) - 1)) ELSE s

\* str.strip('\0')
StripNul(s) == RStrip(LStrip(s))

----------------------------------------------------------------------------
(* Text codecs, as Python's bytes.decode computes them. *)

IsCont(b) == b >= 128 /\ b <= 191

\* bytes.decode('utf-8'): strict UTF-8; overlong forms, surrogates and code
\* points above U+10FFFF raise UnicodeDecodeError.  A leading EF BB BF is
\* decoded as U+FEFF like any other character.
RECURSIVE Utf8DecodeFrom(_, _, _)
Utf8DecodeFrom(b, i, acc) ==
    IF i > Len(b) THEN Ok(acc)
    ELSE LET b0 == b[i]
             left == Len(b) - i
         IN  IF b0 < 128 THEN Utf8DecodeFrom(b, i + 1, Append(acc, b0))
             ELSE IF b0 >= 194 /\ b0 <= 223 /\ left >= 1 /\ IsCont(b[i + 1])
             THEN Utf8DecodeFrom(b, i + 2,
                      Append(acc, (b0 - 192) * 64 + (b[i + 1] - 128)))
             ELSE IF b0 >= 224 /\ b0 <= 239 /\ left >= 2
                     /\ IsCont(b[i + 1]) /\ IsCont(b[i + 2])
             THEN LET cp == (b0 - 224) * 4096 + (b[i + 1] - 128) * 64
                            + (b[i + 2] - 128)
                  IN  IF cp < 2048 \/ (cp >= 55296 /\ cp <= 57343)
                      THEN Err("UnicodeDecodeError")
                      ELSE Utf8DecodeFrom(b, i + 3, Append(acc, cp))
             ELSE IF b0 >= 240 /\ b0 <= 244 /\ left >= 3 /\ IsCont(b[i + 1])
                     /\ IsCont(b[i + 2]) /\ IsCont(b[i + 3])
             THEN LET cp == (b0 - 240) * 262144 + (b[i + 1] - 128) * 4096
                            + (b[i + 2] - 128) * 64 + (b[i + 3] - 128)
                  IN  IF cp < 65536 \/ cp > 1114111
                      THEN Err("UnicodeDecodeError")
                      ELSE Utf8DecodeFrom(b, i + 4, Append(acc, cp))
             ELSE Err("UnicodeDecodeError")

Utf8Decode(b) == Utf8DecodeFrom(b, 1, <<>>)

\* The 16-bit code unit at byte offset i (1-based) in the given byte order.
Utf16Unit(b, i, little) ==
    IF little THEN b[i] + 256 * b[i + 1] ELSE 256 * b[i] + b[i + 1]

RECURSIVE Utf16DecodeFrom(_, _, _, _)
Utf16DecodeFrom(b, i, little, acc) ==
    IF i > Len(b) THEN Ok(acc)
    ELSE IF i = Len(b) THEN Err("UnicodeDecodeError")
    ELSE LET u == Utf16Unit(b, i, little)
         IN  IF u < 55296 \/ u > 57343
             THEN Utf16DecodeFrom(b, i + 2, little, Append(acc, u))
             ELSE IF u <= 56319 /\ i + 3 <= Len(b)
                     /\ Utf16Unit(b, i + 2, little) >= 56320
                     /\ Utf16Unit(b, i + 2, little) <= 57343
             THEN Utf16DecodeFrom(b, i + 4, little,
                      Append(acc, 65536 + (u - 55296) * 1024
                                  + (Utf16Unit(b, i + 2, little) - 56320)))
             ELSE Err("UnicodeDecodeError")

\* bytes.decode('utf-16'): a leading FF FE or FE FF is a byte-order mark, it
\* selects the byte order and is not part of the text; without one the
\* platform order (little-endian) is used.
Utf16Decode(b) ==
    IF Len(b) >= 2 /\ b[1] = 255 /\ b[2] = 254
    THEN Utf16DecodeFrom(b, 3, TRUE, <<>>)
    ELSE IF Len(b) >= 2 /\ b[1] = 254 /\ b[2] = 255
    THEN Utf16DecodeFrom(b, 3, FALSE, <<>>)
    ELSE Utf16DecodeFrom(b, 1, TRUE, <<>>)

\* Encoders of BMP code points, used to lay out pool entries and names.
Utf8EncodeCp(cp) ==
    IF cp < 128 THEN <<cp>>
    ELSE IF cp < 2048 THEN <<192 + (cp \div 64), 128 + (cp % 64)>>
    ELSE <<224 + (cp \div 4096), 128 + ((cp \div 64) % 64), 128 + (cp % 64)>>

RECURSIVE Utf8Encode(_)
Utf8Encode(t) ==
    IF t = <<>> THEN <<>> ELSE Utf8EncodeCp(Head(t)) \o Utf8Encode(Tail(t))

RECURSIVE Utf16LeEncode(_)
Utf16LeEncode(t) ==
    IF t = <<>> THEN <<>>
    ELSE <<Head(t) % 256, Head(t) \div 256>> \o Utf16LeEncode(Tail(t))

----------------------------------------------------------------------------
(* String pools. *)

UTF8_FLAG == "UTF8_FLAG"

UTF16 == "UTF16"

PoolFlags == {UTF8_FLAG, UTF16}

\* One raw pool entry holding the text t: a two-byte length prefix, the
\* encoded text and a NUL terminator as wide as one code unit.
PoolEntry(t, flags) ==
    IF flags = UTF8_FLAG
    THEN <<Len(t), Len(Utf8Encode(t))>> \o Utf8Encode(t) \o <<0>>
    ELSE <<Len(t) % 256, Len(t) \div 256>> \o Utf16LeEncode(t) \o <<0, 0>>

\* The decoding both get_package_types and get_package_type_keys apply to a
\* raw entry of a pool with the given flags.
DecodeUtf8Entry(t) ==
    LET d == Utf8Decode(PySlice(t, 2, -1))
    IN  IF IsOk(d) THEN Ok(StripNul(d.val)) ELSE d

DecodeUtf16Entry(t) ==
    LET d == Utf16Decode(PySlice(t, 2, -2))
    IN  IF IsOk(d) THEN Ok(StripNul(d.val)) ELSE d

DecodeEntry(t, flags) ==
    IF flags = UTF8_FLAG THEN DecodeUtf8Entry(t) ELSE DecodeUtf16Entry(t)

----------------------------------------------------------------------------
(* The decoded resource table (arsc.ResTable), as far as Arsc reads it.     *)
(* A package is [id, name, typeStrings, keyStrings, types]; name is the raw *)
(* UTF-16 header field, a pool is [flags, strings] and types is the list of *)
(* type-spec groups, each the list of its records' header.entryCount.       *)

SeqsUpTo(S, n) == UNION {[1..k -> S] : k \in 0..n}

NulBytes(n) == [i \in 1..n |-> 0]

\* "app", "lib", "appx"
TextApp == <<97, 112, 112>>

TextLib == <<108, 105, 98>>

TextAppx == <<97, 112, 112, 120>>

\* "string", "drawable", then "t3", "t4", ...
TypeText(i) ==
    IF i = 1 THEN <<115, 116, 114, 105, 110, 103>>
    ELSE IF i = 2 THEN <<100, 114, 97, 119, 97, 98, 108, 101>>
    ELSE <<116, 48 + i>>

\* "app_name", "hello", "icon", then "k3", "k4", ... (0-based pool index)
KeyText(i) ==
    IF i = 0 THEN <<97, 112, 112, 95, 110, 97, 109, 101>>
    ELSE IF i = 1 THEN <<104, 101, 108, 108, 111>>
    ELSE IF i = 2 THEN <<105, 99, 111, 110>>
    ELSE <<107, 48 + i>>

\* Header name fields: NUL-padded names, and one that fills the field and so
\* has no terminator.
NameApp == Utf16LeEncode(TextApp) \o NulBytes(2)

NameLib == Utf16LeEncode(TextLib) \o NulBytes(2)

NameUnterminated == Utf16LeEncode(TextAppx)

HeaderNames == {NameApp, NameLib, NameUnterminated}

PkgIds == {1, 127}

StringPool(flags, texts) ==
    [flags |-> flags,
     strings |-> [i \in 1..Len(texts) |-> PoolEntry(texts[i], flags)]]

TypePool(flags, n) == StringPool(flags, [i \in 1..n |-> TypeText(i)])

KeyPool(flags, n) == StringPool(flags, [i \in 1..n |-> KeyText(i - 1)])

\* A group with primary entryCount c; with variants it has a second record,
\* for another configuration, declaring a different count.
TypeSpecGroup(c, variants) == IF variants THEN <<c, MaxCount + 1 - c>> ELSE <<c>>

Package(id, name, typeStrings, keyStrings, types) ==
    [id |-> id, name |-> name, typeStrings |-> typeStrings,
     keyStrings |-> keyStrings, types |-> types]

\* One-package tables over every layout within the bounds.
LayoutPackages ==
    {Package(127, NameApp, TypePool(f, nt), KeyPool(f, nk),
             [i \in 1..Len(cs) |-> TypeSpecGroup(cs[i], v)]) :
        f \in PoolFlags, nt \in 0..MaxTypes, nk \in 0..MaxKeys,
        cs \in SeqsUpTo(0..MaxCount, MaxTypes), v \in BOOLEAN}

\* The example package layout (string: 2 entries, drawable: 1 entry, keys
\* app_name, hello, icon) and a second, different one.
ExampleLayout(id, name) ==
    Package(id, name, TypePool(UTF8_FLAG, 2), KeyPool(UTF8_FLAG, 3),
            <<<<2>>, <<1>>>>)

OtherLayout(id, name) ==
    Package(id, name, TypePool(UTF16, 1),
            StringPool(UTF16, <<KeyText(2)>>), <<<<1, 0>>>>)

SmallPackages ==
    {ExampleLayout(id, name) : id \in PkgIds, name \in HeaderNames}
    \cup {OtherLayout(id, name) : id \in PkgIds, name \in HeaderNames}

\* Tables of several packages, ids and names in every combination (equal
\* ids and unterminated names included).
Tables ==
    {<<p>> : p \in LayoutPackages} \cup SeqsUpTo(SmallPackages, MaxPkgs)

----------------------------------------------------------------------------
(* class Arsc.  A statement that may raise is an outcome handed to the      *)
(* operator modelling the statements after it, which passes a raised        *)
(* exception on unchanged.                                                  *)

\* _find_null_utf16: the first even offset holding two NUL bytes.
RECURSIVE find_null_utf16_from(_, _)
find_null_utf16_from(buf, i) ==
    IF i >= Len(buf) THEN Err("NullTerminatorNotFound")
    ELSE IF PySlice(buf, i, i + 2) = <<0, 0>> THEN Ok(i)
    ELSE find_null_utf16_from(buf, i + 2)

find_null_utf16(buf) == find_null_utf16_from(buf, 0)

\* buf[:n].decode('utf-16')
decode_utf16_upto(buf, n) ==
    IF IsOk(n) THEN Utf16Decode(PySlice(buf, 0, n.val)) ELSE n

utf16_to_str(buf) == decode_utf16_upto(buf, find_null_utf16(buf))

RECURSIVE pid_to_package_from(_, _, _)
pid_to_package_from(packages, i, pid) ==
    IF i > Len(packages) THEN Err("PackageNotFound")
    ELSE IF packages[i].id = pid THEN Ok(packages[i])
    ELSE pid_to_package_from(packages, i + 1, pid)

pid_to_package(arsc, pid) == pid_to_package_from(arsc, 1, pid)

\* ret[key] = value on a dict
DictSet(ret, key, value) ==
    [k \in DOMAIN ret \cup {key} |-> IF k = key THEN value ELSE ret[k]]

EmptyDict == [k \in {} |-> <<>>]

\* ret[key] = value where the value may have raised
DictSetOutcome(ret, key, value) ==
    IF ~IsOk(ret) THEN ret
    ELSE IF ~IsOk(value) THEN value
    ELSE Ok(DictSet(ret.val, key, value.val))

\* The loop of get_packages over packages[0 .. n-1]
RECURSIVE get_packages_upto(_, _)
get_packages_upto(packages, n) ==
    IF n = 0 THEN Ok(EmptyDict)
    ELSE DictSetOutcome(get_packages_upto(packages, n - 1),
                        packages[n].id, utf16_to_str(packages[n].name))

get_packages(arsc) == get_packages_upto(arsc, Len(arsc))

\* The decoding loops: strings[0 .. n-1] into a dict keyed base, base+1, ...
RECURSIVE decode_strings_upto(_, _, _, _)
decode_strings_upto(strings, flags, n, base) ==
    IF n = 0 THEN Ok(EmptyDict)
    ELSE DictSetOutcome(decode_strings_upto(strings, flags, n - 1, base),
                        n - 1 + base, DecodeEntry(strings[n], flags))

get_package_types(pkg) ==
    decode_strings_upto(pkg.typeStrings.strings, pkg.typeStrings.flags,
                        Len(pkg.typeStrings.strings), 1)

\* A faulty variant of PrimaryEntryCount: the group's last record
PrimaryEntryCountLast(group) == group[Len(group)]

\* entryCount of a group's record 0
PrimaryEntryCount(group) == group[1]

\* pkg.types[i][0].header.entryCount.integer, i 0-based
typeSpec_entryCount(pkg, i) ==
    IF i >= Len(pkg.types) \/ pkg.types[i + 1] = <<>>
    THEN Err("TypeSpecIndexError")
    ELSE Ok(PrimaryEntryCount(pkg.types[i + 1]))

\* A faulty variant of PastTypeSpecs: range(tid)
PastTypeSpecsInclusive(tid) == tid

\* How many groups precede type id tid: range(tid - 1)
PastTypeSpecs(tid) == tid - 1

AddEntryCount(first, typeSpec) ==
    IF ~IsOk(first) THEN first
    ELSE IF ~IsOk(typeSpec) THEN typeSpec
    ELSE Ok(first.val + typeSpec.val)

\* first += typeSpec.entryCount.integer over pkg.types[0 .. n-1]
RECURSIVE SumEntryCounts(_, _)
SumEntryCounts(pkg, n) ==
    IF n = 0 THEN Ok(0)
    ELSE AddEntryCount(SumEntryCounts(pkg, n - 1),
                       typeSpec_entryCount(pkg, n - 1))

key_range_of(this_typeSpec, first) ==
    IF ~IsOk(this_typeSpec) THEN this_typeSpec
    ELSE IF ~IsOk(first) THEN first
    ELSE Ok([first |-> first.val, last |-> first.val + this_typeSpec.val])

\* first and last of get_package_type_keys
key_range(pkg, tid) ==
    key_range_of(typeSpec_entryCount(pkg, tid - 1),
                 SumEntryCounts(pkg, PastTypeSpecs(tid)))

\* A faulty variant of KeyStringsAfterSlice: the keys are removed from the pool
KeyStringsAfterSlicePopped(strings, first, last) ==
    PySlice(strings, 0, first) \o PySliceFrom(strings, last)

\* pkg.keyStrings.strings after keylist was taken from it: slicing copies
KeyStringsAfterSlice(strings, first, last) == strings

\* The outcome holds the dict of keys and, beside it, the locals first and
\* last it was cut with.
keys_outcome(keys, first, last) ==
    IF ~IsOk(keys) THEN keys
    ELSE Ok([first |-> first, last |-> last, keys |-> keys.val])

decode_keylist(keylist, flags, first, last) ==
    keys_outcome(decode_strings_upto(keylist, flags, Len(keylist), 0),
                 first, last)

keys_in_range(keyStrings, range) ==
    IF ~IsOk(range) THEN range
    ELSE decode_keylist(PySlice(keyStrings.strings, range.val.first,
                                range.val.last),
                        keyStrings.flags, range.val.first, range.val.last)

keys_of_package(pkg, tid) ==
    IF ~IsOk(pkg) THEN pkg
    ELSE keys_in_range(pkg.val.keyStrings, key_range(pkg.val, tid))

get_package_type_keys(arsc, pid, tid) ==
    IF tid < 1 THEN Err("MinimumTypeId")
    ELSE keys_of_package(pid_to_package(arsc, pid), tid)

types_of_package(pkg) ==
    IF ~IsOk(pkg) THEN pkg ELSE get_package_types(pkg.val)

\* return packages[pid], types[tid], keys[kid]
return_names(packages, types, keys, pid, tid, kid) ==
    IF pid \notin DOMAIN packages THEN Err("PackageKeyError")
    ELSE IF tid \notin DOMAIN types THEN Err("TypeKeyError")
    ELSE IF kid \notin DOMAIN keys THEN Err("KeyKeyError")
    ELSE Ok(<<packages[pid], types[tid], keys[kid]>>)

rid_to_name_steps(packages, pkg, types, keys, pid, tid, kid) ==
    IF ~IsOk(packages) THEN packages
    ELSE IF ~IsOk(pkg) THEN pkg
    ELSE IF ~IsOk(types) THEN types
    ELSE IF ~IsOk(keys) THEN keys
    ELSE return_names(packages.val, types.val, keys.val.keys, pid, tid, kid)

rid_to_name(arsc, pid, tid, kid) ==
    rid_to_name_steps(get_packages(arsc), pid_to_package(arsc, pid),
                      types_of_package(pid_to_package(arsc, pid)),
                      get_package_type_keys(arsc, pid, tid), pid, tid, kid)

\* Index (1-based) of the package pid_to_package returns
FirstIndexOf(arsc, pid) ==
    CHOOSE j \in 1..Len(arsc) :
        arsc[j].id = pid /\ \A k \in 1..(j - 1) : arsc[k].id # pid

ArscWithKeysTaken(arsc, pid, out) ==
    IF ~IsOk(out) THEN arsc
    ELSE [arsc EXCEPT ![FirstIndexOf(arsc, pid)].keyStrings.strings =
              KeyStringsAfterSlice(@, out.val.first, out.val.last)]

\* The table after get_package_type_keys(pid, tid) ran
ArscAfterTypeKeys(arsc, pid, tid) ==
    ArscWithKeysTaken(arsc, pid, get_package_type_keys(arsc, pid, tid))

\* The table after rid_to_name(pid, tid, kid) ran
ArscAfterRidToName(arsc, pid, tid) ==
    IF IsOk(get_packages(arsc))
       /\ IsOk(types_of_package(pid_to_package(arsc, pid)))
    THEN ArscAfterTypeKeys(arsc, pid, tid)
    ELSE arsc

----------------------------------------------------------------------------
(* main: the identifier is split with masks and shifts.  An integer is its  *)
(* little-endian bit sequence, so that all 32 bits are kept.                *)

NibbleBits(d) == <<d % 2, (d \div 2) % 2, (d \div 4) % 2, (d \div 8) % 2>>

\* int(argv[2], 0) of "0x" followed by the digits, most significant first
RECURSIVE HexToBits(_)
HexToBits(digits) ==
    IF digits = <<>> THEN <<>>
    ELSE HexToBits(Tail(digits)) \o NibbleBits(Head(digits))

\* a & b
BitAnd(a, b) ==
    [i \in 1..Max(Len(a), Len(b)) |->
        IF i <= Len(a) /\ i <= Len(b) THEN a[i] * b[i] ELSE 0]

\* a >> n
ShiftRight(a, n) == IF n >= Len(a) THEN <<>> ELSE SubSeq(a, n + 1, Len(a))

RECURSIVE BitsToNat(_)
BitsToNat(a) == IF a = <<>> THEN 0 ELSE Head(a) + 2 * BitsToNat(Tail(a))

\* 0xff000000, 0xff0000, 0xffff
MaskPid == HexToBits(<<15, 15, 0, 0, 0, 0, 0, 0>>)

MaskTid == HexToBits(<<15, 15, 0, 0, 0, 0>>)

MaskKid == HexToBits(<<15, 15, 15, 15>>)

rid_pid(rid) == BitsToNat(ShiftRight(BitAnd(rid, MaskPid), 24))

\* A faulty variant of rid_tid: the mask 0xfff0000
MaskTidWide == HexToBits(<<15, 15, 15, 0, 0, 0, 0>>)

rid_tid_wide(rid) == BitsToNat(ShiftRight(BitAnd(rid, MaskTidWide), 16))

rid_tid(rid) == BitsToNat(ShiftRight(BitAnd(rid, MaskTid), 16))

rid_kid(rid) == BitsToNat(BitAnd(rid, MaskKid))

\* The identifiers given on the command line: 8 hex digits each.
RidDigits ==
    {<<7, 15, 0, 1, 0, 0, 0, 0>>, <<7, 15, 0, 1, 0, 0, 0, 1>>,
     <<7, 15, 0, 2, 0, 0, 0, 0>>, <<7, 15, 0, 3, 0, 0, 0, 0>>,
     <<0, 0, 0, 0, 0, 0, 0, 0>>, <<15, 15, 15, 15, 15, 15, 15, 15>>,
     <<8, 0, 1, 0, 8, 0, 0, 1>>, <<0, 1, 15, 15, 0, 0, 0, 2>>,
     <<0, 1, 0, 2, 15, 15, 15, 15>>, <<10, 5, 5, 10, 3, 12, 12, 3>>}

----------------------------------------------------------------------------------------------------------------------------------------
(* The state machine: a table, decoded once, on which one operation is      *)
(* called (as main does) and may be called again with the same arguments.   *)

NoCall == [op |-> "none"]

Init ==
    /\ table \in Tables
    /\ call = NoCall
    /\ result = Ok(<<>>)
    /\ ncalls = 0

CallPids == PkgIds

CallTids == 0..(MaxTypes + 1)

CallKids == 0..MaxCount

do_get_packages ==
    /\ call' = [op |-> "get_packages"]
    /\ result' = get_packages(table)
    /\ UNCHANGED table
    /\ ncalls' = ncalls + 1

do_pid_to_package(pid) ==
    /\ call' = [op |-> "pid_to_package", pid |-> pid]
    /\ result' = pid_to_package(table, pid)
    /\ UNCHANGED table
    /\ ncalls' = ncalls + 1

do_get_package_types(pid) ==
    /\ IsOk(pid_to_package(table, pid))
    /\ call' = [op |-> "get_package_types", pid |-> pid]
    /\ result' = get_package_types(pid_to_package(table, pid).val)
    /\ UNCHANGED table
    /\ ncalls' = ncalls + 1

do_get_package_type_keys(pid, tid) ==
    /\ call' = [op |-> "get_package_type_keys", pid |-> pid, tid |-> tid]
    /\ result' = get_package_type_keys(table, pid, tid)
    /\ table' = ArscAfterTypeKeys(table, pid, tid)
    /\ ncalls' = ncalls + 1

do_rid_to_name(pid, tid, kid) ==
    /\ call' = [op |-> "rid_to_name", pid |-> pid, tid |-> tid, kid |-> kid]
    /\ result' = rid_to_name(table, pid, tid, kid)
    /\ table' = ArscAfterRidToName(table, pid, tid)
    /\ ncalls' = ncalls + 1

do_main_ids(digits, rid, pid, tid, kid) ==
    /\ call' = [op |-> "main", argv |-> digits, rid |-> rid,
                pid |-> pid, tid |-> tid, kid |-> kid]
    /\ result' = rid_to_name(table, pid, tid, kid)
    /\ table' = ArscAfterRidToName(table, pid, tid)
    /\ ncalls' = ncalls + 1

do_main_rid(digits, rid) ==
    do_main_ids(digits, rid, rid_pid(rid), rid_tid(rid), rid_kid(rid))

do_main(digits) == do_main_rid(digits, HexToBits(digits))

GetPackages == call = NoCall /\ do_get_packages

PidToPackage(pid) == call = NoCall /\ do_pid_to_package(pid)

GetPackageTypes(pid) == call = NoCall /\ do_get_package_types(pid)

GetPackageTypeKeys(pid, tid) == call = NoCall /\ do_get_package_type_keys(pid, tid)

RidToName(pid, tid, kid) == call = NoCall /\ do_rid_to_name(pid, tid, kid)

Main(digits) == call = NoCall /\ do_main(digits)

\* The call just made, made again with the same arguments.
Repeat ==
    /\ ncalls < MaxCalls
    /\ \/ call.op = "get_packages" /\ do_get_packages
       \/ call.op = "pid_to_package" /\ do_pid_to_package(call.pid)
       \/ call.op = "get_package_types" /\ do_get_package_types(call.pid)
       \/ call.op = "get_package_type_keys"
              /\ do_get_package_type_keys(call.pid, call.tid)
       \/ call.op = "rid_to_name" /\ do_rid_to_name(call.pid, call.tid, call.kid)
       \/ call.op = "main" /\ do_main(call.argv)

Next ==
    \/ GetPackages
    \/ \E pid \in CallPids : PidToPackage(pid)
    \/ \E pid \in CallPids : GetPackageTypes(pid)
    \/ \E pid \in CallPids, tid \in CallTids : GetPackageTypeKeys(pid, tid)
    \/ \E pid \in CallPids, tid \in CallTids, kid \in CallKids :
           RidToName(pid, tid, kid)
    \/ \E digits \in RidDigits : Main(digits)
    \/ Repeat

Spec == Init /\ [][Next]_vars

----------------------------------------------------------------------------
(* Tables whose pools hold one logical text each, in either encoding, under *)
(* the same operations.                                                     *)

\* "a", e-acute, the euro sign, U+FEFF and U+FFFE.  Entries are
\* NUL-terminated, so a logical text holds no NUL.
Alphabet == {97, 233, 8364, 65279, 65534}

Texts == SeqsUpTo(Alphabet, MaxLen)

TextPackage(text, flags) ==
    Package(127, NameApp, StringPool(flags, <<text>>),
            StringPool(flags, <<text>>), <<<<1>>>>)

InitDecode ==
    /\ table \in {<<TextPackage(text, flags)>> :
                      text \in Texts, flags \in PoolFlags}
    /\ call = NoCall
    /\ result = Ok(<<>>)
    /\ ncalls = 0

SpecDecode == InitDecode /\ [][Next]_vars

----------------------------------------------------------------------------
(* Vocabulary of the properties. *)

Resolving == call.op \in {"rid_to_name", "main"}

HasPackage(arsc, pid) == \E i \in 1..Len(arsc) : arsc[i].id = pid

FirstPackage(arsc, pid) == arsc[FirstIndexOf(arsc, pid)]

UniqueIds(arsc) ==
    \A i, j \in 1..Len(arsc) : arsc[i].id = arsc[j].id => i = j

NamesTerminated(arsc) ==
    \A i \in 1..Len(arsc) : IsOk(find_null_utf16(arsc[i].name))

HasGroup(pkg, tid) == tid \in 1..Len(pkg.types)

HasTypeName(pkg, tid) == tid \in 1..Len(pkg.typeStrings.strings)

RECURSIVE SumSeq(_)
SumSeq(s) == IF s = <<>> THEN 0 ELSE Head(s) + SumSeq(Tail(s))

\* entryCount of the primary record of the group of type id t
PrimaryCount(pkg, t) == pkg.types[t][1]

\* Sum of the primary entryCounts of the groups of type ids 1 .. tid-1
FirstOf(pkg, tid) == SumSeq([t \in 1..(tid - 1) |-> PrimaryCount(pkg, t)])

\* The decoded key-name pool entry at absolute (0-based) index i
KeyNameAt(pkg, i) ==
    DecodeEntry(pkg.keyStrings.strings[i + 1], pkg.keyStrings.flags).val

TypeNameAt(pkg, tid) ==
    DecodeEntry(pkg.typeStrings.strings[tid], pkg.typeStrings.flags).val

\* The error kinds of the design, by the statement that raised
PackageNotFound(e) == e = "PackageNotFound"

TypeNotFound(e) == e \in {"MinimumTypeId", "TypeSpecIndexError", "TypeKeyError"}

KeyIndexOutOfRange(e) == e = "KeyKeyError"

ExampleTable == <<ExampleLayout(127, NameApp)>>

\* The case of C1: a resolvable (package, type, entry)
Resolvable(arsc, pid, tid, kid) ==
    /\ HasPackage(arsc, pid)
    /\ HasTypeName(FirstPackage(arsc, pid), tid)
    /\ HasGroup(FirstPackage(arsc, pid), tid)
    /\ kid >= 0
    /\ kid < PrimaryCount(FirstPackage(arsc, pid), tid)
    /\ FirstOf(FirstPackage(arsc, pid), tid) + kid
           < Len(FirstPackage(arsc, pid).keyStrings.strings)

ExpectedTriple(pkg, tid, kid) ==
    <<utf16_to_str(pkg.name).val, TypeNameAt(pkg, tid),
      KeyNameAt(pkg, FirstOf(pkg, tid) + kid)>>

----------------------------------------------------------------------------
(* C1 *)

\* C1: in a table with unique package ids, resolving a (package_id, type_id,
\* entry_id) whose package exists, whose type id has a name and a group and
\* whose entry id is inside the type's entryCount and the key pool returns
\* exactly (decoded header name, decoded type name at type_id - 1, decoded
\* key name at first(type_id) + entry_id); the example table resolves
\* 0x7f010000, 0x7f010001 and 0x7f020000 to its three names.
C1_ResolveReturnsTriple ==
    Resolving /\ UniqueIds(table) /\ Resolvable(table, call.pid, call.tid, call.kid)
        /\ IsOk(utf16_to_str(FirstPackage(table, call.pid).name))
    => result = Ok(ExpectedTriple(FirstPackage(table, call.pid), call.tid, call.kid))

\* The same, for tables in which every header name has its terminator.
ResolveReturnsTripleWhenNamesTerminated ==
    Resolving /\ UniqueIds(table) /\ NamesTerminated(table)
        /\ Resolvable(table, call.pid, call.tid, call.kid)
    => result = Ok(ExpectedTriple(FirstPackage(table, call.pid), call.tid, call.kid))

\* The example of C1, on the example table.
ExampleResolves ==
    table = ExampleTable /\ call.op = "main" =>
        /\ call.argv = <<7, 15, 0, 1, 0, 0, 0, 0>>
               => result = Ok(<<TextApp, TypeText(1), KeyText(0)>>)
        /\ call.argv = <<7, 15, 0, 1, 0, 0, 0, 1>>
               => result = Ok(<<TextApp, TypeText(1), KeyText(1)>>)
        /\ call.argv = <<7, 15, 0, 2, 0, 0, 0, 0>>
               => result = Ok(<<TextApp, TypeText(2), KeyText(2)>>)
        /\ call.argv = <<7, 15, 0, 3, 0, 0, 0, 0>> => TypeNotFound(result.err)

----------------------------------------------------------------------------
(* C2 *)

\* C2: when type-spec groups exist for both t and t+1, the range computed
\* by get_package_type_keys for t has first <= last and its last is the
\* first of the range computed for t+1.
C2_KeyRangesAdjacent ==
    call.op = "get_package_type_keys" /\ HasPackage(table, call.pid)
        /\ HasGroup(FirstPackage(table, call.pid), call.tid)
        /\ HasGroup(FirstPackage(table, call.pid), call.tid + 1)
    => /\ IsOk(result)
       /\ result.val.first <= result.val.last
       /\ IsOk(get_package_type_keys(table, call.pid, call.tid + 1))
       /\ result.val.last
              = get_package_type_keys(table, call.pid, call.tid + 1).val.first

C2_Witness ==
    /\ call.op = "get_package_type_keys"
    /\ table = ExampleTable
    /\ call.pid = 127 /\ call.tid = 1
    /\ IsOk(result) /\ result.val.first = 0 /\ result.val.last = 2

----------------------------------------------------------------------------
(* C3 *)

\* The dict of the decoded key-name pool entries at the indices of
\* [first, last) that the pool has, keyed from 0
KeysInRange(pkg, first, last) ==
    [i \in {k \in 0..(last - first - 1) :
                first + k < Len(pkg.keyStrings.strings)}
        |-> KeyNameAt(pkg, first + i)]

\* C3: for a type id with a group, first is the sum of the primary
\* entryCounts of the groups of type ids 1..tid-1, last is first plus the
\* primary entryCount of tid's group, the keys returned are exactly the pool
\* entries of [first, last), and first is 0 for type id 1.
C3_KeyRangeIsPrefixSum ==
    call.op = "get_package_type_keys" /\ HasPackage(table, call.pid)
        /\ HasGroup(FirstPackage(table, call.pid), call.tid)
    => /\ IsOk(result)
       /\ result.val.first = FirstOf(FirstPackage(table, call.pid), call.tid)
       /\ result.val.last = result.val.first
              + PrimaryCount(FirstPackage(table, call.pid), call.tid)
       /\ result.val.keys = KeysInRange(FirstPackage(table, call.pid),
                                        result.val.first, result.val.last)
       /\ (call.tid = 1 => result.val.first = 0)

C3_Witness ==
    /\ call.op = "get_package_type_keys"
    /\ call.pid = 127 /\ call.tid = 2
    /\ Len(table) = 1
    /\ Len(table[1].types) = 2 /\ Len(table[1].types[1]) = 2
    /\ IsOk(result) /\ result.val.first = 2 /\ result.val.last = 3
    /\ DOMAIN result.val.keys = {0} /\ result.val.keys[0] = KeyText(2)

----------------------------------------------------------------------------
(* C4 *)

\* C4: resolving a package id that no package of the table carries fails
\* with the package-not-found error, whatever the type id and entry id.
C4_AbsentPackageIsPackageNotFound ==
    Resolving /\ ~HasPackage(table, call.pid)
    => PackageNotFound(result.err)

\* The same, for tables in which every header name has its terminator.
AbsentPackageIsPackageNotFoundWhenNamesTerminated ==
    Resolving /\ NamesTerminated(table) /\ ~HasPackage(table, call.pid)
    => PackageNotFound(result.err)

----------------------------------------------------------------------------
(* C5 *)

\* C5: for an existing package, resolving type id 0 or a type id greater
\* than the length of the type-name pool fails with TypeNotFound, whatever
\* the groups and the entry id.
C5_BadTypeIsTypeNotFound ==
    Resolving /\ HasPackage(table, call.pid)
        /\ (call.tid = 0 \/ ~HasTypeName(FirstPackage(table, call.pid), call.tid))
    => TypeNotFound(result.err)

\* The same, for tables in which every header name has its terminator.
BadTypeIsTypeNotFoundWhenNamesTerminated ==
    Resolving /\ NamesTerminated(table) /\ HasPackage(table, call.pid)
        /\ (call.tid = 0 \/ ~HasTypeName(FirstPackage(table, call.pid), call.tid))
    => TypeNotFound(result.err)

----------------------------------------------------------------------------
(* C6 *)

\* The entry id is outside the type's entryCount, or its key index is past
\* the end of the key-name pool
EntryOutOfRange(pkg, tid, kid) ==
    \/ kid >= PrimaryCount(pkg, tid)
    \/ FirstOf(pkg, tid) + kid >= Len(pkg.keyStrings.strings)

\* C6: for an existing package and a valid type id (one with a name and a
\* group), resolving an entry id outside the type's entryCount or past the
\* end of the key-name pool fails with KeyIndexOutOfRange and returns no
\* name.
C6_BadEntryIsKeyIndexOutOfRange ==
    Resolving /\ HasPackage(table, call.pid)
        /\ HasTypeName(FirstPackage(table, call.pid), call.tid)
        /\ HasGroup(FirstPackage(table, call.pid), call.tid)
        /\ EntryOutOfRange(FirstPackage(table, call.pid), call.tid, call.kid)
    => KeyIndexOutOfRange(result.err)

\* The same, for tables in which every header name has its terminator.
BadEntryIsKeyIndexOutOfRangeWhenNamesTerminated ==
    Resolving /\ NamesTerminated(table) /\ HasPackage(table, call.pid)
        /\ HasTypeName(FirstPackage(table, call.pid), call.tid)
        /\ HasGroup(FirstPackage(table, call.pid), call.tid)
        /\ EntryOutOfRange(FirstPackage(table, call.pid), call.tid, call.kid)
    => KeyIndexOutOfRange(result.err)

----------------------------------------------------------------------------
(* C7 *)

RECURSIVE NatToBits(_, _)
NatToBits(n, width) ==
    IF width = 0 THEN <<>> ELSE <<n % 2>> \o NatToBits(n \div 2, width - 1)

\* package_id * 2^24 + type_id * 2^16 + entry_id, as 32 bits
Compose(pid, tid, kid) ==
    NatToBits(kid, 16) \o NatToBits(tid, 8) \o NatToBits(pid, 8)

\* C7: main splits a 32-bit identifier into package id = bits 31..24, type
\* id = bits 23..16 and entry id = bits 15..0, each within its width, and
\* composing the three gives the identifier back.
C7_DecomposeComposeRoundTrip ==
    call.op = "main" /\ Len(call.rid) = 32
    => /\ call.pid \in 0..255 /\ call.tid \in 0..255 /\ call.kid \in 0..65535
       /\ call.pid = BitsToNat(SubSeq(call.rid, 25, 32))
       /\ call.tid = BitsToNat(SubSeq(call.rid, 17, 24))
       /\ call.kid = BitsToNat(SubSeq(call.rid, 1, 16))
       /\ Compose(call.pid, call.tid, call.kid) = call.rid

C7_Witness ==
    /\ call.op = "main"
    /\ call.argv = <<10, 5, 5, 10, 3, 12, 12, 3>>
    /\ call.pid = 165 /\ call.tid = 90 /\ call.kid = 15555

----------------------------------------------------------------------------
(* C8 *)

OtherFlags(flags) == IF flags = UTF8_FLAG THEN UTF16 ELSE UTF8_FLAG

\* The table is the one whose pools hold the logical text, with these flags
HoldsText(arsc, text, flags) ==
    /\ Len(arsc) = 1
    /\ arsc[1].typeStrings = StringPool(flags, <<text>>)
    /\ arsc[1].keyStrings = StringPool(flags, <<text>>)

\* C8: the UTF-8-flagged and the UTF-16-flagged pool entry of one logical
\* text decode to identical strings, both the logical text, as a type name
\* and as a key name.
C8_EncodingsDecodeAlike ==
    \A flags \in PoolFlags, text \in Texts :
        HoldsText(table, text, flags) =>
            /\ call.op = "get_package_types" =>
                   /\ result = Ok([i \in {1} |-> text])
                   /\ result = get_package_types(
                                   TextPackage(text, OtherFlags(flags)))
            /\ call.op = "get_package_type_keys" /\ call.pid = 127
                   /\ call.tid = 1 =>
                   /\ IsOk(result)
                   /\ result.val.keys = [i \in {0} |-> text]
                   /\ result = get_package_type_keys(
                                   <<TextPackage(text, OtherFlags(flags))>>,
                                   127, 1)

\* What does hold: texts that do not start with a byte-order mark decode
\* alike.
PlainText(text) == text = <<>> \/ Head(text) \notin {65279, 65534}

PlainTextsDecodeAlike ==
    \A flags \in PoolFlags, text \in Texts :
        HoldsText(table, text, flags) /\ PlainText(text) =>
            /\ call.op = "get_package_types" =>
                   /\ result = Ok([i \in {1} |-> text])
                   /\ result = get_package_types(
                                   TextPackage(text, OtherFlags(flags)))
            /\ call.op = "get_package_type_keys" /\ call.pid = 127
                   /\ call.tid = 1 =>
                   /\ IsOk(result)
                   /\ result.val.keys = [i \in {0} |-> text]
                   /\ result = get_package_type_keys(
                                   <<TextPackage(text, OtherFlags(flags))>>,
                                   127, 1)

----------------------------------------------------------------------------
(* C9 *)

\* C9: no operation changes the decoded table, and a call made again with
\* the same arguments gives the same outcome.
C9_TableUnchanged ==
    [][table' = table /\ (call' = call => result' = result)]_vars

C9_Witness ==
    /\ ncalls = 2
    /\ call.op = "rid_to_name"
    /\ table = ExampleTable
    /\ result = Ok(<<TextApp, TypeText(1), KeyText(1)>>)

----------------------------------------------------------------------------
(* C10 *)

\* C10: the outcome of rid_to_name(pid, tid, kid) depends only on the first
\* package of the table whose id is pid: it is the outcome on the table of
\* that package alone, whatever the other packages hold.
C10_DependsOnFirstPackageOnly ==
    Resolving /\ HasPackage(table, call.pid)
    => result = rid_to_name(<<FirstPackage(table, call.pid)>>,
                            call.pid, call.tid, call.kid)

\* The same, for tables with unique ids in which every header name has its
\* terminator.
DependsOnFirstPackageOnlyWhenWellFormed ==
    Resolving /\ HasPackage(table, call.pid) /\ UniqueIds(table)
        /\ NamesTerminated(table)
    => result = rid_to_name(<<FirstPackage(table, call.pid)>>,
                            call.pid, call.tid, call.kid)

====
